---------------------------- MODULE Spec2Model ----------------------------
(***************************************************************************)
(* A model of the concurrent hash map benchmark harness of                 *)
(* src/src/hashmap.rs: the ConcurrentHashMap trait and its three adapters  *)
(* (Mutex<std HashMap>, DashMap, scc::HashMap), the insert and get         *)
(* benchmark cells, populate_map and the MutexIter key distributor.        *)
(*                                                                         *)
(* Spec          the sweep: cells (benchmark, backend, threads, len) run   *)
(*               one after the other, each with its worker threads.        *)
(* SpecContract  the trait alone: threads issue arbitrary insert and get   *)
(*               calls against one fresh map through an adapter.           *)
(***************************************************************************)
EXTENDS Integers, Sequences, FiniteSets

\* ------------------------------------------------------------------ bounds

\* Size of the key pool. The source sets 5000 (hashmap.rs:15); the model
\* keeps the pool small enough to run a cell to exhaustion, and large
\* enough for keys of more than one digit.
NUM_KEYS == 10

\* Iterations the timing engine runs per worker thread before it stops.
MaxIters == 6

\* Calls issued in all by the callers of SpecContract.
MaxOps == 4

\* ------------------------------------------------------- program constants

\* Thread counts and batch lengths swept: subsets of the source's lists.
THREADS == {1, 2}

LENS == {1, 2}

BACKENDS == {"MutexHashMap", "DashMap", "scc::HashMap"}

BENCHES == {"insert", "get"}

WorkerIds == <<"t1", "t2">>

Workers(n) == {WorkerIds[j] : j \in 1..n}

Threads == {"main"} \cup {WorkerIds[j] : j \in DOMAIN WorkerIds}

\* ------------------------------------------------------------------ values

\* Option<T>
None == [some |-> FALSE]

Some(v) == [some |-> TRUE, val |-> v]

\* Strings are sequences of characters.
Hello == <<"h", "e", "l", "l", "o">>

World == <<"w", "o", "r", "l", "d">>

DigitChars == <<"0", "1", "2", "3", "4", "5", "6", "7", "8", "9">>

\* u64::to_string: the decimal digits, most significant first.
RECURSIVE ToString(_)
ToString(n) ==
    IF n < 10 THEN <<DigitChars[n + 1]>>
    ELSE Append(ToString(n \div 10), DigitChars[(n % 10) + 1])

\* Mutant of PoolKeys: the range starts at 0.
PoolKeysFromZero == [n \in 1..NUM_KEYS |-> ToString(n - 1)]

\* (1..=NUM_KEYS).map(|n| n.to_string()).collect::<Vec<_>>()
PoolKeys == [n \in 1..NUM_KEYS |-> ToString(n)]

\* Keys and values the callers of SpecContract pass.
ContractKeys == {Hello, ToString(1)}

ContractVals == {World, Hello}

AllKeys == {PoolKeys[n] : n \in 1..NUM_KEYS} \cup ContractKeys

\* ------------------------------------------------- the maps' operations

\* H::default(): an empty map.
EmptyMap == [k \in {} |-> World]

\* Mutants of HashMapInsert: a present key keeps its value, and the value
\* returned is the one just stored.
HashMapInsertKeep(m, key, val) ==
    [map |-> [k \in (DOMAIN m) \cup {key} |-> IF k \in DOMAIN m THEN m[k] ELSE val],
     ret |-> IF key \in DOMAIN m THEN Some(m[key]) ELSE None]

HashMapInsertRetNew(m, key, val) ==
    [map |-> [k \in (DOMAIN m) \cup {key} |-> IF k = key THEN val ELSE m[k]],
     ret |-> IF key \in DOMAIN m THEN Some(val) ELSE None]

\* insert (std HashMap, DashMap) and upsert (scc): the map with key bound
\* to val, and the value the key was bound to before.
HashMapInsert(m, key, val) ==
    [map |-> [k \in (DOMAIN m) \cup {key} |-> IF k = key THEN val ELSE m[k]],
     ret |-> IF key \in DOMAIN m THEN Some(m[key]) ELSE None]

\* Mutants of HashMapGet: an absent key is entered with the empty string,
\* and a present key is taken out of the map.
HashMapGetOrDefault(m, key) ==
    IF key \in DOMAIN m
    THEN [map |-> m, ret |-> Some(m[key])]
    ELSE [map |-> [k \in (DOMAIN m) \cup {key} |-> IF k = key THEN <<>> ELSE m[k]],
          ret |-> Some(<<>>)]

HashMapGetRemove(m, key) ==
    [map |-> [k \in (DOMAIN m) \ {key} |-> m[k]],
     ret |-> IF key \in DOMAIN m THEN Some(m[key]) ELSE None]

\* get(key) followed by cloned(): a copy of the value, the map as it was.
HashMapGet(m, key) ==
    [map |-> m,
     ret |-> IF key \in DOMAIN m THEN Some(m[key]) ELSE None]

\* ------------------------------------------------------- the distributor

\* MutexIter::new(keys.into_iter()): the vector and a cursor before it.
\* Mutant of NewIter: the cursor starts past the first element.
NewIterSkipFirst(keys) == [vec |-> keys, pos |-> 1]

NewIter(keys) == [vec |-> keys, pos |-> 0]

\* Mutants of IntoIterNext: a cursor that is not advanced, an end test
\* that stops one element early, and a cursor that wraps around at the end.
IntoIterNextStuck(it) ==
    IF it.pos < Len(it.vec)
    THEN [iter |-> it, ret |-> Some(it.vec[it.pos + 1])]
    ELSE [iter |-> it, ret |-> None]

IntoIterNextShort(it) ==
    IF it.pos + 1 < Len(it.vec)
    THEN [iter |-> [it EXCEPT !.pos = it.pos + 1], ret |-> Some(it.vec[it.pos + 1])]
    ELSE [iter |-> it, ret |-> None]

IntoIterNextWrap(it) ==
    IF it.pos < Len(it.vec)
    THEN [iter |-> [it EXCEPT !.pos = it.pos + 1], ret |-> Some(it.vec[it.pos + 1])]
    ELSE IF Len(it.vec) > 0
    THEN [iter |-> [it EXCEPT !.pos = 1], ret |-> Some(it.vec[1])]
    ELSE [iter |-> it, ret |-> None]

\* vec::IntoIter::next under the lock: the element at the cursor and the
\* cursor moved past it, or None with the cursor left at the end.
IntoIterNext(it) ==
    IF it.pos < Len(it.vec)
    THEN [iter |-> [it EXCEPT !.pos = it.pos + 1], ret |-> Some(it.vec[it.pos + 1])]
    ELSE [iter |-> it, ret |-> None]

\* ------------------------------------------------------------------- state

VARIABLES
    cell,       \* the cell being run: [bench, backend, threads, len]
    phase,      \* "idle" | "populate" | "timed"
    map,        \* the contents of the cell's map (Arc<H>)
    mapLock,    \* MutexHashMap: the threads holding the Mutex (none or one)
    mapGuards,  \* DashMap, scc: the threads holding a Ref / OccupiedEntry
    keys,       \* populate_map's Vec<String>
    popIdx,     \* populate_map: keys inserted so far
    iter,       \* MutexIter.iter: the vector and the cursor into it
    iterLock,   \* the threads holding MutexIter's Mutex (none or one)
    pc,         \* each thread's position
    arg,        \* each thread's current call: [key, val]
    ret,        \* each thread's last returned Option
    input,      \* each worker's input of the iteration (the key drawn)
    i,          \* each worker's loop counter, for _ in 0..len
    iters,      \* each worker's completed iterations
    ops,        \* SpecContract: calls issued so far
    last,       \* history: per key, the value of the last insert applied
    seen,       \* history: per key, the values inserted so far
    expect,     \* history: per thread, last[key] when its call took effect
    nIns,       \* history: insert calls that have taken effect in the cell
    nAbsent,    \* history: those of them that returned None
    nGets,      \* history: get calls that have taken effect in the cell
    drawn,      \* history: the results of next(), in lock order
    drawIdx,    \* history: per worker, the place of its last draw in drawn
    obs         \* history: per worker, the cursor its last draw found

vars == <<cell, phase, map, mapLock, mapGuards, keys, popIdx, iter,
          iterLock, pc, arg, ret, input, i, iters, ops, last, seen, expect,
          nIns, nAbsent, nGets, drawn, drawIdx, obs>>

distVars == <<iter, iterLock, drawn, drawIdx, obs>>

cellVars == <<cell, phase, keys, popIdx, ops>>

loopVars == <<input, i, iters>>

histVars == <<last, seen, expect, nIns, nAbsent, nGets>>

NoCell == [bench |-> "none", backend |-> "none", threads |-> 0, len |-> 0]

NoArg == [key |-> <<>>, val |-> <<>>]

\* The state every cell and every contract run starts from.
Fresh ==
    /\ map = EmptyMap
    /\ mapLock = {}
    /\ mapGuards = {}
    /\ keys = <<>>
    /\ popIdx = 0
    /\ iter = NewIter(<<>>)
    /\ iterLock = {}
    /\ arg = [t \in Threads |-> NoArg]
    /\ ret = [t \in Threads |-> None]
    /\ input = [t \in Threads |-> <<>>]
    /\ i = [t \in Threads |-> 0]
    /\ iters = [t \in Threads |-> 0]
    /\ last = [k \in AllKeys \cup {Hello} |-> None]
    /\ seen = [k \in AllKeys \cup {Hello} |-> {}]
    /\ expect = [t \in Threads |-> None]
    /\ nIns = 0
    /\ nAbsent = 0
    /\ nGets = 0
    /\ drawn = <<>>
    /\ drawIdx = [t \in Threads |-> 0]
    /\ obs = [t \in Threads |-> 0]

Init ==
    /\ cell = NoCell
    /\ phase = "idle"
    /\ ops = 0
    /\ pc = [t \in Threads |-> "off"]
    /\ Fresh

\* ------------------------------------------------------- the sweep driver

Key(t) == arg[t].key

\* Mutant of NewCell: the map of the cell before is used again.
NewCellKeepMap(c, p, a) ==
    /\ cell' = c
    /\ map' = map
    /\ mapLock' = {}
    /\ mapGuards' = {}
    /\ iterLock' = {}
    /\ arg' = a
    /\ ret' = [t \in Threads |-> None]
    /\ input' = [t \in Threads |-> <<>>]
    /\ i' = [t \in Threads |-> 0]
    /\ iters' = [t \in Threads |-> 0]
    /\ last' = [k \in AllKeys \cup {Hello} |-> None]
    /\ seen' = [k \in AllKeys \cup {Hello} |-> {}]
    /\ expect' = [t \in Threads |-> None]
    /\ nIns' = 0
    /\ nAbsent' = 0
    /\ nGets' = 0
    /\ drawn' = <<>>
    /\ drawIdx' = [t \in Threads |-> 0]
    /\ obs' = [t \in Threads |-> 0]
    /\ pc' = p
    /\ UNCHANGED ops

\* The worker threads of a new cell at position p, everything else as new.
NewCell(c, p, a) ==
    /\ cell' = c
    /\ map' = EmptyMap
    /\ mapLock' = {}
    /\ mapGuards' = {}
    /\ iterLock' = {}
    /\ arg' = a
    /\ ret' = [t \in Threads |-> None]
    /\ input' = [t \in Threads |-> <<>>]
    /\ i' = [t \in Threads |-> 0]
    /\ iters' = [t \in Threads |-> 0]
    /\ last' = [k \in AllKeys \cup {Hello} |-> None]
    /\ seen' = [k \in AllKeys \cup {Hello} |-> {}]
    /\ expect' = [t \in Threads |-> None]
    /\ nIns' = 0
    /\ nAbsent' = 0
    /\ nGets' = 0
    /\ drawn' = <<>>
    /\ drawIdx' = [t \in Threads |-> 0]
    /\ obs' = [t \in Threads |-> 0]
    /\ pc' = p
    /\ UNCHANGED ops

\* Mutant of StartInsertCell: every thread inserts a key of its own.
StartInsertCellOwnKeys(b, n, l) ==
    /\ phase = "idle"
    /\ NewCell([bench |-> "insert", backend |-> b, threads |-> n, len |-> l],
               [t \in Threads |-> IF t \in Workers(n) THEN "insert" ELSE "off"],
               [t \in Threads |->
                  IF t \in Workers(n)
                  THEN [key |-> IF t = WorkerIds[1] THEN Hello ELSE ToString(1),
                        val |-> World]
                  ELSE NoArg])
    /\ phase' = "timed"
    /\ keys' = <<>>
    /\ popIdx' = 0
    /\ iter' = NewIter(<<>>)

\* fn insert: a new map; the engine starts the cell's threads, each about
\* to make the first map.insert of its first iteration.
StartInsertCell(b, n, l) ==
    /\ phase = "idle"
    /\ NewCell([bench |-> "insert", backend |-> b, threads |-> n, len |-> l],
               [t \in Threads |-> IF t \in Workers(n) THEN "insert" ELSE "off"],
               [t \in Threads |->
                  IF t \in Workers(n) THEN [key |-> Hello, val |-> World] ELSE NoArg])
    /\ phase' = "timed"
    /\ keys' = <<>>
    /\ popIdx' = 0
    /\ iter' = NewIter(<<>>)

\* fn get: a new map, and populate_map entered: the keys are collected and
\* the main thread is at the head of the loop that inserts them.
StartGetCell(b, n, l) ==
    /\ phase = "idle"
    /\ NewCell([bench |-> "get", backend |-> b, threads |-> n, len |-> l],
               [t \in Threads |-> IF t = "main" THEN "populate" ELSE "off"],
               [t \in Threads |-> NoArg])
    /\ phase' = "populate"
    /\ keys' = PoolKeys
    /\ popIdx' = 0
    /\ iter' = NewIter(<<>>)

\* ------------------------------------------------------------ the adapters

\* The call of thread t takes effect as an insert: the map, the returned
\* value and the history of the call.
ApplyInsert(t) ==
    LET r == HashMapInsert(map, Key(t), arg[t].val) IN
    /\ map' = r.map
    /\ ret' = [ret EXCEPT ![t] = r.ret]
    /\ expect' = [expect EXCEPT ![t] = last[Key(t)]]
    /\ last' = [last EXCEPT ![Key(t)] = Some(arg[t].val)]
    /\ seen' = [seen EXCEPT ![Key(t)] = @ \cup {arg[t].val}]
    /\ nIns' = nIns + 1
    /\ nAbsent' = IF r.ret = None THEN nAbsent + 1 ELSE nAbsent
    /\ UNCHANGED nGets

\* The call of thread t takes effect as a get.
ApplyGet(t) ==
    LET r == HashMapGet(map, Key(t)) IN
    /\ map' = r.map
    /\ ret' = [ret EXCEPT ![t] = r.ret]
    /\ expect' = [expect EXCEPT ![t] = last[Key(t)]]
    /\ nGets' = nGets + 1
    /\ UNCHANGED <<last, seen, nIns, nAbsent>>

\* Mutant of MutexInsertLock: the lock is taken without waiting for it.
MutexInsertLockNoWait(t) ==
    /\ cell.backend = "MutexHashMap"
    /\ pc[t] = "insert"
    /\ mapLock' = mapLock \cup {t}
    /\ pc' = [pc EXCEPT ![t] = "insert_locked"]
    /\ UNCHANGED <<cellVars, map, mapGuards, distVars, arg, ret, loopVars, histVars>>

\* MutexHashMap::insert, self.lock().unwrap(): blocks while the lock is held.
MutexInsertLock(t) ==
    /\ cell.backend = "MutexHashMap"
    /\ pc[t] = "insert"
    /\ mapLock = {}
    /\ mapLock' = {t}
    /\ pc' = [pc EXCEPT ![t] = "insert_locked"]
    /\ UNCHANGED <<cellVars, map, mapGuards, distVars, arg, ret, loopVars, histVars>>

\* MutexHashMap::insert, .insert(key, val) on the locked map.
MutexInsertApply(t) ==
    /\ pc[t] = "insert_locked"
    /\ ApplyInsert(t)
    /\ pc' = [pc EXCEPT ![t] = "insert_unlock"]
    /\ UNCHANGED <<cellVars, mapLock, mapGuards, distVars, arg, loopVars>>

\* MutexHashMap::insert: the guard is dropped and the call returns.
MutexInsertUnlock(t) ==
    /\ pc[t] = "insert_unlock"
    /\ mapLock' = mapLock \ {t}
    /\ pc' = [pc EXCEPT ![t] = "insert_ret"]
    /\ UNCHANGED <<cellVars, map, mapGuards, distVars, arg, ret, loopVars, histVars>>

\* DashMap::insert and scc::HashMap::upsert: one atomic step of the
\* library, which waits while another thread holds a reference to the entry.
LibInsert(t) ==
    /\ cell.backend \in {"DashMap", "scc::HashMap"}
    /\ pc[t] = "insert"
    /\ \A u \in mapGuards : Key(u) # Key(t)
    /\ ApplyInsert(t)
    /\ pc' = [pc EXCEPT ![t] = "insert_ret"]
    /\ UNCHANGED <<cellVars, mapLock, mapGuards, distVars, arg, loopVars>>

\* MutexHashMap::get, self.lock().unwrap()
MutexGetLock(t) ==
    /\ cell.backend = "MutexHashMap"
    /\ pc[t] = "get"
    /\ mapLock = {}
    /\ mapLock' = {t}
    /\ pc' = [pc EXCEPT ![t] = "get_locked"]
    /\ UNCHANGED <<cellVars, map, mapGuards, distVars, arg, ret, loopVars, histVars>>

\* MutexHashMap::get, .get(key).cloned() on the locked map.
MutexGetApply(t) ==
    /\ pc[t] = "get_locked"
    /\ ApplyGet(t)
    /\ pc' = [pc EXCEPT ![t] = "get_unlock"]
    /\ UNCHANGED <<cellVars, mapLock, mapGuards, distVars, arg, loopVars>>

\* Mutant of MutexGetUnlock: get returns with the guard still alive.
MutexGetUnlockLeak(t) ==
    /\ pc[t] = "get_unlock"
    /\ mapLock' = mapLock
    /\ pc' = [pc EXCEPT ![t] = "get_ret"]
    /\ UNCHANGED <<cellVars, map, mapGuards, distVars, arg, ret, loopVars, histVars>>

\* MutexHashMap::get: the guard is dropped and the copy is returned.
MutexGetUnlock(t) ==
    /\ pc[t] = "get_unlock"
    /\ mapLock' = mapLock \ {t}
    /\ pc' = [pc EXCEPT ![t] = "get_ret"]
    /\ UNCHANGED <<cellVars, map, mapGuards, distVars, arg, ret, loopVars, histVars>>

\* DashMap::get and scc::HashMap::get, self.get(key): a reference to the
\* entry when the key is present (held until the copy is made), else None.
LibGet(t) ==
    /\ cell.backend \in {"DashMap", "scc::HashMap"}
    /\ pc[t] = "get"
    /\ ApplyGet(t)
    /\ mapGuards' = IF Key(t) \in DOMAIN map THEN mapGuards \cup {t} ELSE mapGuards
    /\ pc' = [pc EXCEPT ![t] = "get_ref"]
    /\ UNCHANGED <<cellVars, mapLock, distVars, arg, loopVars>>

\* .as_deref().cloned(): the copy is made, the reference dropped, the call
\* returns.
LibGetDrop(t) ==
    /\ pc[t] = "get_ref"
    /\ mapGuards' = mapGuards \ {t}
    /\ pc' = [pc EXCEPT ![t] = "get_ret"]
    /\ UNCHANGED <<cellVars, map, mapLock, distVars, arg, ret, loopVars, histVars>>

\* ------------------------------------------------------------ populate_map

\* for key in &keys: the next key is passed to map.insert with f().
PopulateInsert ==
    /\ pc["main"] = "populate"
    /\ popIdx < Len(keys)
    /\ arg' = [arg EXCEPT !["main"] = [key |-> keys[popIdx + 1], val |-> World]]
    /\ pc' = [pc EXCEPT !["main"] = "insert"]
    /\ UNCHANGED <<cellVars, map, mapLock, mapGuards, distVars, ret, loopVars, histVars>>

\* map.insert has returned: on to the next key.
PopulateInserted ==
    /\ phase = "populate"
    /\ pc["main"] = "insert_ret"
    /\ popIdx' = popIdx + 1
    /\ pc' = [pc EXCEPT !["main"] = "populate"]
    /\ UNCHANGED <<cell, phase, keys, ops, map, mapLock, mapGuards,
                   distVars, arg, ret, loopVars, histVars>>

\* Mutant of PopulateDone: the loop stops with the last key not inserted.
PopulateDoneEarly ==
    /\ pc["main"] = "populate"
    /\ popIdx + 1 >= Len(keys)
    /\ iter' = NewIter(keys)
    /\ phase' = "timed"
    /\ pc' = [t \in Threads |->
                IF t \in Workers(cell.threads) THEN "with_inputs" ELSE "off"]
    /\ UNCHANGED <<cell, keys, popIdx, ops, map, mapLock, mapGuards,
                   iterLock, drawn, drawIdx, obs, arg, ret, loopVars, histVars>>

\* The loop is over: populate_map returns keys, get wraps them in a
\* MutexIter and the engine starts the threads, each about to draw an input.
PopulateDone ==
    /\ pc["main"] = "populate"
    /\ popIdx >= Len(keys)
    /\ iter' = NewIter(keys)
    /\ phase' = "timed"
    /\ pc' = [t \in Threads |->
                IF t \in Workers(cell.threads) THEN "with_inputs" ELSE "off"]
    /\ UNCHANGED <<cell, keys, popIdx, ops, map, mapLock, mapGuards,
                   iterLock, drawn, drawIdx, obs, arg, ret, loopVars, histVars>>

\* --------------------------------------------------------- MutexIter::next

\* Mutant of NextLock: the lock is taken without waiting for it.
NextLockNoWait(t) ==
    /\ pc[t] = "with_inputs"
    /\ iterLock' = iterLock \cup {t}
    /\ pc' = [pc EXCEPT ![t] = "next_locked"]
    /\ UNCHANGED <<cellVars, map, mapLock, mapGuards, iter, drawn, drawIdx, obs,
                   arg, ret, loopVars, histVars>>

\* self.iter.lock().unwrap(): blocks while another thread holds the lock.
NextLock(t) ==
    /\ pc[t] = "with_inputs"
    /\ iterLock = {}
    /\ iterLock' = {t}
    /\ pc' = [pc EXCEPT ![t] = "next_locked"]
    /\ UNCHANGED <<cellVars, map, mapLock, mapGuards, iter, drawn, drawIdx, obs,
                   arg, ret, loopVars, histVars>>

\* Mutant of NextAdvance: every thread walks the pool with a cursor of its
\* own, the shared one stays where it is.
NextAdvanceOwnCursor(t) ==
    /\ pc[t] = "next_locked"
    /\ LET r == IntoIterNext([vec |-> iter.vec, pos |-> iters[t]]) IN
         /\ iter' = iter
         /\ ret' = [ret EXCEPT ![t] = r.ret]
         /\ drawn' = Append(drawn, r.ret)
         /\ drawIdx' = [drawIdx EXCEPT ![t] = Len(drawn) + 1]
         /\ obs' = [obs EXCEPT ![t] = iter.pos]
    /\ pc' = [pc EXCEPT ![t] = "next_unlock"]
    /\ UNCHANGED <<cellVars, map, mapLock, mapGuards, iterLock, arg, loopVars, histVars>>

\* .next() on the locked iterator.
NextAdvance(t) ==
    /\ pc[t] = "next_locked"
    /\ LET r == IntoIterNext(iter) IN
         /\ iter' = r.iter
         /\ ret' = [ret EXCEPT ![t] = r.ret]
         /\ drawn' = Append(drawn, r.ret)
         /\ drawIdx' = [drawIdx EXCEPT ![t] = Len(drawn) + 1]
         /\ obs' = [obs EXCEPT ![t] = iter.pos]
    /\ pc' = [pc EXCEPT ![t] = "next_unlock"]
    /\ UNCHANGED <<cellVars, map, mapLock, mapGuards, iterLock, arg, loopVars, histVars>>

\* Mutant of NextUnlock: next returns with the guard still alive, so the
\* thread calls into the map holding the distributor's lock.
NextUnlockKeep(t) ==
    /\ pc[t] = "next_unlock"
    /\ iterLock' = iterLock
    /\ pc' = [pc EXCEPT ![t] = "expect"]
    /\ UNCHANGED <<cellVars, map, mapLock, mapGuards, iter, drawn, drawIdx, obs,
                   arg, ret, loopVars, histVars>>

\* Mutant of NextUnlock: an exhausted draw returns with the lock still held.
NextUnlockKeepOnNone(t) ==
    /\ pc[t] = "next_unlock"
    /\ iterLock' = IF ret[t].some THEN iterLock \ {t} ELSE iterLock
    /\ pc' = [pc EXCEPT ![t] = "expect"]
    /\ UNCHANGED <<cellVars, map, mapLock, mapGuards, iter, drawn, drawIdx, obs,
                   arg, ret, loopVars, histVars>>

\* The guard is dropped at the end of the statement and next returns.
NextUnlock(t) ==
    /\ pc[t] = "next_unlock"
    /\ iterLock' = iterLock \ {t}
    /\ pc' = [pc EXCEPT ![t] = "expect"]
    /\ UNCHANGED <<cellVars, map, mapLock, mapGuards, iter, drawn, drawIdx, obs,
                   arg, ret, loopVars, histVars>>

\* ----------------------------------------------------- the get benchmark

\* .expect(NUM_KEYS_ERROR_MESSAGE): the key is the iteration's input and the
\* loop starts with its first map.get(&key); None panics with the message.
Expect(t) ==
    /\ pc[t] = "expect"
    /\ IF ret[t].some
       THEN /\ input' = [input EXCEPT ![t] = ret[t].val]
            /\ i' = [i EXCEPT ![t] = 0]
            /\ arg' = [arg EXCEPT ![t] = [key |-> ret[t].val, val |-> <<>>]]
            /\ pc' = [pc EXCEPT ![t] = "get"]
       ELSE /\ pc' = [pc EXCEPT ![t] = "panicked"]
            /\ UNCHANGED <<input, i, arg>>
    /\ UNCHANGED <<cellVars, map, mapLock, mapGuards, distVars, ret, iters, histVars>>

\* Mutant of GetReturned: a new key is drawn for every get of the batch.
GetReturnedRedraw(t) ==
    /\ cell.bench = "get"
    /\ pc[t] = "get_ret"
    /\ IF i[t] + 1 < cell.len
       THEN /\ i' = [i EXCEPT ![t] = i[t] + 1]
            /\ pc' = [pc EXCEPT ![t] = "with_inputs"]
            /\ UNCHANGED iters
       ELSE /\ i' = [i EXCEPT ![t] = 0]
            /\ iters' = [iters EXCEPT ![t] = iters[t] + 1]
            /\ pc' = [pc EXCEPT ![t] =
                        IF iters[t] + 1 < MaxIters THEN "with_inputs" ELSE "done"]
    /\ UNCHANGED <<cellVars, map, mapLock, mapGuards, distVars, arg, ret, input, histVars>>

\* map.get(&key) has returned and black_box took the value: the next turn
\* of for _ in 0..len, or the end of the iteration, after which the engine
\* asks for the next input or stops the thread.
GetReturned(t) ==
    /\ cell.bench = "get"
    /\ pc[t] = "get_ret"
    /\ IF i[t] + 1 < cell.len
       THEN /\ i' = [i EXCEPT ![t] = i[t] + 1]
            /\ pc' = [pc EXCEPT ![t] = "get"]
            /\ UNCHANGED iters
       ELSE /\ i' = [i EXCEPT ![t] = 0]
            /\ iters' = [iters EXCEPT ![t] = iters[t] + 1]
            /\ pc' = [pc EXCEPT ![t] =
                        IF iters[t] + 1 < MaxIters THEN "with_inputs" ELSE "done"]
    /\ UNCHANGED <<cellVars, map, mapLock, mapGuards, distVars, arg, ret, input, histVars>>

\* --------------------------------------------------- the insert benchmark

\* Mutant of InsertReturned: the loop takes one turn more than len.
InsertReturnedOneMore(t) ==
    /\ cell.bench = "insert"
    /\ pc[t] = "insert_ret"
    /\ IF i[t] + 1 <= cell.len
       THEN /\ i' = [i EXCEPT ![t] = i[t] + 1]
            /\ pc' = [pc EXCEPT ![t] = "insert"]
            /\ UNCHANGED iters
       ELSE /\ i' = [i EXCEPT ![t] = 0]
            /\ iters' = [iters EXCEPT ![t] = iters[t] + 1]
            /\ pc' = [pc EXCEPT ![t] =
                        IF iters[t] + 1 < MaxIters THEN "insert" ELSE "done"]
    /\ UNCHANGED <<cellVars, map, mapLock, mapGuards, distVars, arg, ret, input, histVars>>

\* Mutant of InsertReturned: the key iterator moves on to another key.
InsertReturnedNewKey(t) ==
    /\ cell.bench = "insert"
    /\ pc[t] = "insert_ret"
    /\ arg' = [arg EXCEPT ![t] = [key |-> ToString(1), val |-> World]]
    /\ IF i[t] + 1 < cell.len
       THEN /\ i' = [i EXCEPT ![t] = i[t] + 1]
            /\ pc' = [pc EXCEPT ![t] = "insert"]
            /\ UNCHANGED iters
       ELSE /\ i' = [i EXCEPT ![t] = 0]
            /\ iters' = [iters EXCEPT ![t] = iters[t] + 1]
            /\ pc' = [pc EXCEPT ![t] =
                        IF iters[t] + 1 < MaxIters THEN "insert" ELSE "done"]
    /\ UNCHANGED <<cellVars, map, mapLock, mapGuards, distVars, ret, input, histVars>>

\* map.insert(key.next().unwrap(), value.next().unwrap()) has returned: the
\* next turn of the loop with "hello" and "world" again, or the end of the
\* iteration, after which the engine starts the next one or stops.
InsertReturned(t) ==
    /\ cell.bench = "insert"
    /\ pc[t] = "insert_ret"
    /\ IF i[t] + 1 < cell.len
       THEN /\ i' = [i EXCEPT ![t] = i[t] + 1]
            /\ pc' = [pc EXCEPT ![t] = "insert"]
            /\ UNCHANGED iters
       ELSE /\ i' = [i EXCEPT ![t] = 0]
            /\ iters' = [iters EXCEPT ![t] = iters[t] + 1]
            /\ pc' = [pc EXCEPT ![t] =
                        IF iters[t] + 1 < MaxIters THEN "insert" ELSE "done"]
    /\ UNCHANGED <<cellVars, map, mapLock, mapGuards, distVars, arg, ret, input, histVars>>

\* Every thread of the cell has stopped: the cell is over and its map,
\* pool and distributor are dropped. A panic ends the run instead.
FinishCell ==
    /\ phase = "timed"
    /\ cell.bench \in BENCHES
    /\ \A t \in Workers(cell.threads) : pc[t] = "done"
    /\ phase' = "idle"
    /\ pc' = [t \in Threads |-> "off"]
    /\ UNCHANGED <<cell, keys, popIdx, ops, map, mapLock, mapGuards,
                   distVars, arg, ret, loopVars, histVars>>

Adapter(t) ==
    \/ MutexInsertLock(t)
    \/ MutexInsertApply(t)
    \/ MutexInsertUnlock(t)
    \/ LibInsert(t)
    \/ MutexGetLock(t)
    \/ MutexGetApply(t)
    \/ MutexGetUnlock(t)
    \/ LibGet(t)
    \/ LibGetDrop(t)

Next ==
    \/ \E b \in BACKENDS, n \in THREADS, l \in LENS : StartInsertCell(b, n, l)
    \/ \E b \in BACKENDS, n \in THREADS, l \in LENS : StartGetCell(b, n, l)
    \/ PopulateInsert
    \/ PopulateInserted
    \/ PopulateDone
    \/ \E t \in Threads : NextLock(t)
    \/ \E t \in Threads : NextAdvance(t)
    \/ \E t \in Threads : NextUnlock(t)
    \/ \E t \in Threads : Expect(t)
    \/ \E t \in Threads : GetReturned(t)
    \/ \E t \in Threads : InsertReturned(t)
    \/ \E t \in Threads : Adapter(t)
    \/ FinishCell

Spec == Init /\ [][Next]_vars

\* The steps of thread t once the engine has started it.
ThreadStep(t) ==
    \/ NextLock(t)
    \/ NextAdvance(t)
    \/ NextUnlock(t)
    \/ Expect(t)
    \/ GetReturned(t)
    \/ InsertReturned(t)
    \/ Adapter(t)

\* Fair scheduling: a started thread that can take a step and stays able to
\* is not passed over for ever. Nothing is assumed about which waiting
\* thread a freed lock goes to; a thread makes at most MaxIters draws, so a
\* waiting thread finds the lock free for good once the others are through.
Fairness ==
    \A t \in Threads \ {"main"} : WF_vars(ThreadStep(t))

SpecFair == Init /\ [][Next]_vars /\ Fairness

\* ------------------------------------------- the trait, called directly

\* A caller passes a key and a value to ConcurrentHashMap::insert.
ContractInsert(t, k, v) ==
    /\ cell.bench = "contract"
    /\ pc[t] = "idle"
    /\ ops < MaxOps
    /\ ops' = ops + 1
    /\ arg' = [arg EXCEPT ![t] = [key |-> k, val |-> v]]
    /\ pc' = [pc EXCEPT ![t] = "insert"]
    /\ UNCHANGED <<cell, phase, keys, popIdx, map, mapLock, mapGuards,
                   distVars, ret, loopVars, histVars>>

\* A caller passes a key to ConcurrentHashMap::get.
ContractGet(t, k) ==
    /\ cell.bench = "contract"
    /\ pc[t] = "idle"
    /\ ops < MaxOps
    /\ ops' = ops + 1
    /\ arg' = [arg EXCEPT ![t] = [key |-> k, val |-> <<>>]]
    /\ pc' = [pc EXCEPT ![t] = "get"]
    /\ UNCHANGED <<cell, phase, keys, popIdx, map, mapLock, mapGuards,
                   distVars, ret, loopVars, histVars>>

\* The caller has the call's result and is free to call again.
ContractReturned(t) ==
    /\ cell.bench = "contract"
    /\ pc[t] \in {"insert_ret", "get_ret"}
    /\ pc' = [pc EXCEPT ![t] = "idle"]
    /\ UNCHANGED <<cellVars, map, mapLock, mapGuards, distVars, arg, ret,
                   loopVars, histVars>>

\* One fresh map behind any adapter, shared by one or two callers.
InitContract ==
    /\ \E b \in BACKENDS, n \in THREADS :
         /\ cell = [bench |-> "contract", backend |-> b, threads |-> n, len |-> 0]
         /\ pc = [t \in Threads |-> IF t \in Workers(n) THEN "idle" ELSE "off"]
    /\ phase = "timed"
    /\ ops = 0
    /\ Fresh

NextContract ==
    \/ \E t \in Threads, k \in ContractKeys, v \in ContractVals : ContractInsert(t, k, v)
    \/ \E t \in Threads, k \in ContractKeys : ContractGet(t, k)
    \/ \E t \in Threads : ContractReturned(t)
    \/ \E t \in Threads : Adapter(t)

SpecContract == InitContract /\ [][NextContract]_vars

\* ================================================================ claims

\* The cell's worker threads, and the size of the pool handed to MutexIter.
CellWorkers == Workers(cell.threads)

PoolSize == Len(keys)

PoolSet == {keys[n] : n \in 1..Len(keys)}

\* A worker that has drawn in its current iteration (next has run under
\* the lock) and has not finished the iteration.
PastDraw(t) ==
    pc[t] \in {"next_unlock", "expect", "get", "get_locked", "get_unlock",
               "get_ref", "get_ret", "panicked"}

\* A worker whose draw has been handed to its caller.
DrawReturned(t) ==
    pc[t] \in {"get", "get_locked", "get_unlock", "get_ref", "get_ret", "panicked"}

\* C1: the first N <= P results of next(), whichever threads made the calls
\* and however they interleaved, are all keys, pairwise distinct and members
\* of the pool.
C1_DrawsDistinctPoolMembers ==
    \A a \in 1..Len(drawn) :
        a <= PoolSize =>
            /\ drawn[a].some
            /\ drawn[a].val \in PoolSet
            /\ \A b \in 1..Len(drawn) : (b <= PoolSize /\ b # a) => drawn[b] # drawn[a]

\* C1 witness: the whole pool has been drawn, by two racing threads.
C1_Witness ==
    /\ Len(drawn) = NUM_KEYS
    /\ PoolSize = NUM_KEYS
    /\ \A t \in Threads \ {"main"} : drawIdx[t] > 0

\* C2: in lock order the first P calls of next() return a key and call
\* P+1 is the first to return None; the thread whose draw returned None
\* panics in expect, and no thread whose draw returned a key does.
C2_ExhaustionAtPPlusOne ==
    /\ \A a \in 1..Len(drawn) : drawn[a].some <=> a <= PoolSize
    /\ \A t \in CellWorkers :
         /\ pc[t] = "panicked" => drawIdx[t] > PoolSize
         /\ (DrawReturned(t) /\ drawIdx[t] > PoolSize) => pc[t] = "panicked"

\* C2 witness: exactly P+1 draws were made and the last one's thread
\* panicked.
C2_Witness ==
    /\ PoolSize = NUM_KEYS
    /\ Len(drawn) = NUM_KEYS + 1
    /\ \E t \in CellWorkers : pc[t] = "panicked" /\ drawIdx[t] = NUM_KEYS + 1

\* Iterations a worker has begun: those completed and the one under way.
RECURSIVE SumOver(_, _)
SumOver(f, S) ==
    IF S = {} THEN 0
    ELSE LET x == CHOOSE y \in S : TRUE IN f[x] + SumOver(f, S \ {x})

Begun == [t \in Threads |-> iters[t] + IF PastDraw(t) THEN 1 ELSE 0]

\* C3 as stated: with K = NUM_KEYS div (threads * len), every thread
\* completes K iterations and the draw of iteration K+1 returns None.
C3_AsStated ==
    \A t \in CellWorkers :
        (cell.bench = "get" /\ pc[t] = "expect"
            /\ iters[t] = NUM_KEYS \div (cell.threads * cell.len))
        => ret[t] = None

\* C3 amended: a read cell draws one key per iteration whatever the batch
\* length (the len gets of an iteration use the same key), so the draws
\* made equal the iterations begun, the first NUM_KEYS iterations of the
\* cell, counted over all its threads, get a key and iteration NUM_KEYS+1
\* is the first whose draw returns None.
C3_OneDrawPerIteration ==
    (cell.bench = "get" /\ phase = "timed") =>
        /\ Len(drawn) = SumOver(Begun, CellWorkers)
        /\ \A t \in CellWorkers :
             pc[t] = "expect" => (ret[t] = None <=> drawIdx[t] > NUM_KEYS)
        /\ \A t \in CellWorkers :
             pc[t] \in {"get", "get_locked", "get_unlock", "get_ref", "get_ret"}
                => arg[t].key = drawn[drawIdx[t]].val

\* C3 witness: two threads, batch length 2; a thread that has completed
\* NUM_KEYS div (2 * 2) iterations holds a key in a further one and has
\* made the second get of its batch with it.
C3_Witness ==
    /\ cell.bench = "get" /\ cell.threads = 2 /\ cell.len = 2
    /\ NUM_KEYS \div (cell.threads * cell.len) < MaxIters
    /\ \E t \in CellWorkers :
         /\ iters[t] >= NUM_KEYS \div (cell.threads * cell.len)
         /\ pc[t] = "get_ret" /\ i[t] = 1 /\ ret[t] = Some(World)

\* C4: after the first draw that returned None no draw returns a key, no
\* key is returned twice, and every thread whose draw returned None panics
\* rather than going on to use a key.
C4_NoWrapAround ==
    /\ \A a, b \in 1..Len(drawn) : (a < b /\ ~drawn[a].some) => ~drawn[b].some
    /\ \A a, b \in 1..Len(drawn) : (a # b /\ drawn[a].some) => drawn[a] # drawn[b]
    /\ \A t \in CellWorkers :
         (DrawReturned(t) /\ ~drawn[drawIdx[t]].some) => pc[t] = "panicked"
    /\ (\E a \in 1..Len(drawn) : ~drawn[a].some) => iter.pos = Len(iter.vec)

\* C4 witness: two draws after the pool ran out, both threads panicked.
C4_Witness ==
    /\ Len(drawn) = NUM_KEYS + 2
    /\ ~drawn[NUM_KEYS + 1].some
    /\ ~drawn[NUM_KEYS + 2].some
    /\ \A t \in Threads \ {"main"} : pc[t] = "panicked"

\* A get of thread t has taken effect and has not yet been consumed.
GetApplied(t) == pc[t] \in {"get_unlock", "get_ref", "get_ret"}

\* An insert of thread t has taken effect and has not yet been consumed.
InsertApplied(t) == pc[t] \in {"insert_unlock", "insert_ret"}

\* C5: on every adapter, a get of a key that has been inserted, once or
\* several times with different values, returns the value of the last
\* insert made for that key.
C5_GetReturnsLastInsert ==
    \A t \in CellWorkers :
        (GetApplied(t) /\ expect[t].some) => ret[t] = expect[t]

\* C5 witness: a get has returned the second of two different values
\* inserted under its key.
C5_Witness ==
    \E t \in CellWorkers :
        /\ pc[t] = "get_ret"
        /\ Cardinality(seen[Key(t)]) = 2
        /\ ret[t] = Some(Hello)
        /\ expect[t] = Some(Hello)

\* C6: on every adapter, insert returns None for a key that was not in
\* the map and the previously stored value for one that was; afterwards
\* the key is bound to the new value and every other key is bound as the
\* inserts made for it left it.
C6_InsertReturnsPrevious ==
    /\ \A t \in CellWorkers : InsertApplied(t) => ret[t] = expect[t]
    /\ \A k \in AllKeys :
         /\ k \in DOMAIN map <=> last[k].some
         /\ k \in DOMAIN map => map[k] = last[k].val

\* C6 witness: an insert has overwritten a different value and returned
\* it, with another key in the map.
C6_Witness ==
    \E t \in CellWorkers :
        /\ pc[t] = "insert_ret"
        /\ ret[t].some
        /\ ret[t].val # arg[t].val
        /\ map[Key(t)] = arg[t].val
        /\ \E k \in DOMAIN map : k # Key(t)

\* C7: in an insert cell no call fails, the first insert to take effect
\* returns None and is the only one that does, and every other call
\* returns Some("world").
C7_InsertCellReturns ==
    cell.bench = "insert" =>
        /\ nAbsent = IF nIns = 0 THEN 0 ELSE 1
        /\ \A t \in CellWorkers :
             /\ pc[t] # "panicked"
             /\ InsertApplied(t) => ret[t] \in {None, Some(World)}
             /\ (InsertApplied(t) /\ ret[t] = None) => expect[t] = None
        /\ DOMAIN map \subseteq {Hello}

\* C7 witness: two threads have inserted several times and both hold
\* Some("world").
C7_Witness ==
    /\ cell.bench = "insert"
    /\ cell.threads = 2
    /\ nIns >= 4
    /\ nAbsent = 1
    /\ \A t \in CellWorkers : pc[t] = "insert_ret" /\ ret[t] = Some(World)

\* No caller has failed, and a get that took effect on a key no insert had
\* been applied to holds None.
C8_GetAbsentState ==
    \A t \in CellWorkers :
        /\ pc[t] # "panicked"
        /\ (GetApplied(t) /\ ~expect[t].some) => ret[t] = None

\* C8: on every adapter, a get of a key that was never inserted returns
\* None, never an error, and the step in which a get takes effect leaves
\* the map as it was.
C8_GetAbsent ==
    /\ []C8_GetAbsentState
    /\ [][\A t \in CellWorkers :
            (pc[t] \in {"get", "get_locked"} /\ GetApplied(t)') => map' = map]_vars

\* C8 witness: a get of a key never inserted has returned None while the
\* map holds another key.
C8_Witness ==
    \E t \in CellWorkers :
        /\ pc[t] = "get_ret"
        /\ ~expect[t].some
        /\ ret[t] = None
        /\ map # EmptyMap

\* C9: in the timed region of a read cell no step changes the map: its
\* keys, their number and their values stay as population left them.
C9_ReadsLeaveMapUnchanged ==
    [][(cell.bench = "get" /\ phase = "timed") => map' = map]_vars

\* C9 witness: both threads of a read cell have completed an iteration
\* and hold the result of a further get, the map still holding the pool.
C9_Witness ==
    /\ cell.bench = "get"
    /\ phase = "timed"
    /\ \A t \in Threads \ {"main"} : iters[t] >= 1 /\ pc[t] = "get_ret" /\ ret[t] = Some(World)
    /\ Cardinality(DOMAIN map) = NUM_KEYS

\* The number a string of decimal digits denotes.
DigitOf(c) == (CHOOSE d \in 1..10 : DigitChars[d] = c) - 1

RECURSIVE DecimalValue(_)
DecimalValue(s) ==
    IF s = <<>> THEN 0
    ELSE 10 * DecimalValue(SubSeq(s, 1, Len(s) - 1)) + DigitOf(s[Len(s)])

\* C10: in a read cell populate_map returns NUM_KEYS pairwise distinct
\* keys, the n-th being the decimal string of n, and leaves the map holding
\* exactly these keys, each bound to "world"; the distributor is built over
\* them; and no worker thread runs before population is complete.
C10_PopulateMap ==
    cell.bench = "get" =>
        /\ Len(keys) = NUM_KEYS
        /\ \A n \in 1..Len(keys) :
             /\ DecimalValue(keys[n]) = n
             /\ keys[n][1] # "0"
             /\ \A m \in 1..Len(keys) : m # n => keys[m] # keys[n]
        /\ phase = "populate" =>
             /\ \A t \in CellWorkers : pc[t] = "off"
             /\ DOMAIN map = {keys[n] : n \in 1..popIdx}
                 \/ DOMAIN map = {keys[n] : n \in 1..(popIdx + 1)}
        /\ phase = "timed" =>
             /\ DOMAIN map = {keys[n] : n \in 1..NUM_KEYS}
             /\ \A k \in DOMAIN map : map[k] = World
             /\ iter.vec = keys
             /\ popIdx = NUM_KEYS

\* C10 witness: the first timed get of a read cell has returned.
C10_Witness ==
    /\ cell.bench = "get"
    /\ phase = "timed"
    /\ Len(drawn) = 1
    /\ \E t \in CellWorkers : pc[t] = "get_ret" /\ ret[t] = Some(World) /\ iters[t] = 0

\* A worker inside a map.get call of the timed region.
InGet(t) == pc[t] \in {"get", "get_locked", "get_unlock", "get_ref", "get_ret"}

\* C11: every get of a read cell's timed region is a successful lookup:
\* the key passed is the one the thread drew, a member of the pool and
\* present in the map, and the get returns Some("world").
C11_TimedGetsSucceed ==
    cell.bench = "get" =>
        \A t \in CellWorkers :
            /\ InGet(t) =>
                 /\ Key(t) = input[t]
                 /\ Some(Key(t)) = drawn[drawIdx[t]]
                 /\ Key(t) \in PoolSet
                 /\ Key(t) \in DOMAIN map
            /\ GetApplied(t) => ret[t] = Some(World)

\* C11 witness: the last key of the pool has been looked up, in the second
\* get of a batch, by the second of two threads.
C11_Witness ==
    /\ cell.bench = "get"
    /\ cell.len = 2
    /\ pc[WorkerIds[2]] = "get_ret"
    /\ i[WorkerIds[2]] = 1
    /\ Key(WorkerIds[2]) = keys[NUM_KEYS]
    /\ ret[WorkerIds[2]] = Some(World)

\* C12: whatever the cells before left behind, the step that starts a cell
\* gives it a new empty map with no lock held (and, in a read cell, a newly
\* collected pool), and the step that ends population gives a read cell a
\* map holding exactly the NUM_KEYS pool keys and a new distributor over
\* the pool with its cursor before the first key, which its first draw
\* returns.
C12_CellsIndependent ==
    /\ [][(phase = "idle" /\ phase' # "idle") =>
            /\ map' = EmptyMap
            /\ mapLock' = {} /\ mapGuards' = {} /\ iterLock' = {}
            /\ cell'.bench = "get" => (keys' = PoolKeys /\ popIdx' = 0)]_vars
    /\ [][(phase = "populate" /\ phase' = "timed") =>
            /\ iter' = [vec |-> keys', pos |-> 0]
            /\ DOMAIN map' = {keys'[n] : n \in 1..NUM_KEYS}
            /\ Cardinality(DOMAIN map') = NUM_KEYS]_vars
    /\ []((cell.bench = "get" /\ phase = "timed" /\ drawn # <<>>)
            => drawn[1] = Some(keys[1]))

\* C12 witness: a read cell has ended, leaving a full map and a cursor past
\* keys it handed out, and the next cell can start.
C12_Witness ==
    /\ phase = "idle"
    /\ cell.bench = "get"
    /\ iter.pos > 0
    /\ Cardinality(DOMAIN map) = NUM_KEYS
    /\ ENABLED StartInsertCell("MutexHashMap", 2, 1)
    /\ ENABLED StartGetCell("DashMap", 2, 2)

\* A thread between lock() and the drop of the guard in a MutexHashMap call.
HoldsMapLock(t) ==
    pc[t] \in {"insert_locked", "insert_unlock", "get_locked", "get_unlock"}

\* Two threads each hold the result of an insert under the same key with
\* distinct values, and these are the only inserts the map has seen.
TwoInsertsOneKey(t, u) ==
    /\ t # u
    /\ InsertApplied(t) /\ InsertApplied(u)
    /\ Key(t) = Key(u)
    /\ arg[t].val # arg[u].val
    /\ nIns = 2

\* C13: calls on MutexHashMap are linearizable at the step made under the
\* lock: at most one thread holds the lock, exactly the threads between
\* lock() and the drop of the guard hold it, the map and a call's result
\* change only in a step of the one lock holder, every result is the one
\* the order of those steps gives, two inserts of distinct values under one
\* key into the new map return absent once and the other insert's value
\* once, and a get only returns a value that was inserted under its key.
C13_MutexLinearizable ==
    /\ [](cell.backend = "MutexHashMap" =>
            /\ Cardinality(mapLock) <= 1
            /\ \A t \in Threads : t \in mapLock <=> HoldsMapLock(t)
            /\ \A t \in Threads :
                 (InsertApplied(t) \/ GetApplied(t)) => ret[t] = expect[t]
            /\ \A t \in Threads :
                 (GetApplied(t) /\ ret[t].some) => ret[t].val \in seen[Key(t)]
            /\ \A t, u \in Threads :
                 TwoInsertsOneKey(t, u) =>
                    /\ (ret[t] = None) # (ret[u] = None)
                    /\ ret[t] = None => ret[u] = Some(arg[t].val)
                    /\ ret[t] # ret[u])
    /\ [][(cell.backend = "MutexHashMap" /\ (map' # map \/ ret' # ret)) =>
            \E t \in Threads :
                /\ mapLock = {t} /\ mapLock' = {t}
                /\ \A u \in Threads \ {t} : ret'[u] = ret[u]]_vars

\* C13 witness: both threads have inserted under "hello" into the new
\* MutexHashMap, the first "hello" and the second "world"; the first got
\* absent and the second got the first one's value.
C13_Witness ==
    /\ cell.backend = "MutexHashMap"
    /\ TwoInsertsOneKey(WorkerIds[1], WorkerIds[2])
    /\ Key(WorkerIds[1]) = Hello
    /\ pc[WorkerIds[1]] = "insert_ret"
    /\ pc[WorkerIds[2]] = "insert_ret"
    /\ ret[WorkerIds[2]] = None
    /\ ret[WorkerIds[1]] = Some(World)
    /\ mapLock = {}

\* C14: under fair scheduling every thread that calls next() gets its
\* result, a key or the exhausted answer, and a held distributor lock is
\* released again, after an exhausted draw as after a successful one.
C14_DrawReturns ==
    /\ \A t \in Threads \ {"main"} : (pc[t] = "with_inputs") ~> (pc[t] = "expect")
    /\ (iterLock # {}) ~> (iterLock = {})

\* C14 witness: a thread waits to draw while the other holds the lock with
\* an exhausted draw in hand.
C14_Witness ==
    /\ pc[WorkerIds[2]] = "with_inputs"
    /\ pc[WorkerIds[1]] = "next_unlock"
    /\ ret[WorkerIds[1]] = None
    /\ iterLock = {WorkerIds[1]}

\* C15: the key of a timed iteration of a read cell is the result of the
\* draw that iteration made, no other draw of the cell, by this thread or
\* another, returned that key, and two iterations running at the same time
\* hold different keys.
C15_ExclusiveKey ==
    cell.bench = "get" =>
        \A t \in CellWorkers :
            InGet(t) =>
                /\ drawIdx[t] \in 1..Len(drawn)
                /\ drawn[drawIdx[t]] = Some(input[t])
                /\ Key(t) = input[t]
                /\ \A a \in 1..Len(drawn) :
                     a # drawIdx[t] => drawn[a] # Some(input[t])
                /\ \A u \in CellWorkers \ {t} :
                     InGet(u) => (input[u] # input[t] /\ drawIdx[u] # drawIdx[t])

\* C15 witness: both threads are in their third iteration, each in a get
\* with its key.
C15_Witness ==
    /\ cell.bench = "get"
    /\ cell.threads = 2
    /\ \A t \in CellWorkers : iters[t] = 2 /\ pc[t] = "get" /\ i[t] = 0
    /\ Len(drawn) = 6

\* The calls worker t of the cell has made in the timed region if every
\* iteration makes exactly len of them: len for each finished iteration,
\* the finished turns of the running one, and the call in progress once it
\* has taken effect.
CallsDue ==
    [t \in Threads |->
        IF t \in CellWorkers
        THEN iters[t] * cell.len + i[t]
               + (IF InsertApplied(t) \/ GetApplied(t) THEN 1 ELSE 0)
        ELSE 0]

\* C16: in the timed region the loop index of every worker stays below the
\* batch length, the inserts of an insert cell number exactly len for each
\* iteration, so do the gets of a read cell (which makes no insert beyond
\* the NUM_KEYS of population and whose every get is passed the key the
\* iteration drew), and an insert cell makes no get.
C16_BatchOfLen ==
    (cell.bench \in BENCHES /\ phase = "timed") =>
        /\ \A t \in CellWorkers : i[t] \in 0..(cell.len - 1)
        /\ cell.bench = "insert" =>
             (nIns = SumOver(CallsDue, CellWorkers) /\ nGets = 0)
        /\ cell.bench = "get" =>
             /\ nGets = SumOver(CallsDue, CellWorkers)
             /\ nIns = NUM_KEYS
             /\ \A t \in CellWorkers : InGet(t) => Key(t) = input[t]

\* C16 witness: a read cell with two threads and batches of two; one thread
\* is through two iterations and in the second get of the third, the other
\* has finished one, and six plus two gets have taken effect.
C16_Witness ==
    /\ cell.bench = "get"
    /\ cell.len = 2
    /\ iters[WorkerIds[1]] = 2
    /\ i[WorkerIds[1]] = 1
    /\ pc[WorkerIds[1]] = "get_ret"
    /\ iters[WorkerIds[2]] = 1
    /\ pc[WorkerIds[2]] = "with_inputs"
    /\ nGets = 8

\* C17: a draw that returns a key moves the cursor forward by exactly one
\* and returns the key at the old position, a draw that returns None leaves
\* the iterator as it was, at its end; so the k-th draw in lock order
\* returns the k-th pool key, whose decimal value is k, for k up to NUM_KEYS
\* and None after that, and the cursor equals the number of keys handed out.
C17_KthDrawKthKey ==
    /\ [][Len(drawn') = Len(drawn) + 1 =>
            LET r == drawn'[Len(drawn')] IN
            IF r.some
            THEN /\ iter'.pos = iter.pos + 1
                 /\ iter'.vec = iter.vec
                 /\ r.val = iter.vec[iter.pos + 1]
            ELSE /\ iter' = iter
                 /\ iter.pos = Len(iter.vec)]_vars
    /\ []((cell.bench = "get" /\ phase = "timed") =>
            /\ \A k \in 1..Len(drawn) :
                 IF k <= NUM_KEYS
                 THEN /\ drawn[k] = Some(keys[k])
                      /\ drawn[k] = Some(ToString(k))
                      /\ DecimalValue(drawn[k].val) = k
                 ELSE drawn[k] = None
            /\ iter.pos = IF Len(drawn) <= NUM_KEYS THEN Len(drawn) ELSE NUM_KEYS)

\* C17 witness: the tenth draw has returned the two-character key "10" and
\* the eleventh, by the other thread, found the pool exhausted.
C17_Witness ==
    /\ cell.bench = "get"
    /\ Len(drawn) = NUM_KEYS + 1
    /\ drawn[NUM_KEYS] = Some(ToString(NUM_KEYS))
    /\ Len(drawn[NUM_KEYS].val) = 2
    /\ drawIdx[WorkerIds[1]] = NUM_KEYS
    /\ drawIdx[WorkerIds[2]] = NUM_KEYS + 1
    /\ pc[WorkerIds[2]] = "next_unlock"
    /\ iter.pos = NUM_KEYS

\* A thread between lock() and the drop of the guard in MutexIter::next.
HoldsIterLock(t) == pc[t] \in {"next_locked", "next_unlock"}

\* At most one thread holds the distributor's lock, and exactly the threads
\* inside next() past lock() hold it.
IterLockExclusive ==
    /\ Cardinality(iterLock) <= 1
    /\ \A t \in Threads : t \in iterLock <=> HoldsIterLock(t)

\* C18 as stated: the lock is exclusive and no two threads that have drawn
\* observed the same cursor position in their latest draws.
C18_AsStated ==
    /\ IterLockExclusive
    /\ \A t, u \in CellWorkers :
         (t # u /\ drawIdx[t] > 0 /\ drawIdx[u] > 0) => obs[t] # obs[u]

\* C18: the lock is exclusive; while the threads run, the cursor changes,
\* and is read by a draw, only in a step of the one thread holding the
\* lock; the k-th draw that returns a key observed position k-1, so no two
\* draws that return a key observe the same position; a draw that finds
\* the pool exhausted observes the end position, as does every draw after
\* it, by whichever thread.
C18_CursorUnderLock ==
    /\ [](/\ IterLockExclusive
          /\ \A t \in CellWorkers :
               drawIdx[t] > 0 =>
                  IF drawn[drawIdx[t]].some
                  THEN obs[t] = drawIdx[t] - 1
                  ELSE obs[t] = Len(iter.vec)
          /\ \A t, u \in CellWorkers :
               (t # u /\ drawIdx[t] > 0 /\ drawIdx[u] > 0 /\ obs[t] = obs[u])
                  => (drawn[drawIdx[t]] = None /\ drawn[drawIdx[u]] = None))
    /\ [][(phase = "timed" /\ phase' = "timed" /\ (iter' # iter \/ obs' # obs)) =>
            \E t \in Threads :
                /\ iterLock = {t} /\ iterLock' = {t}
                /\ pc[t] = "next_locked"
                /\ \A u \in Threads \ {t} : obs'[u] = obs[u]]_vars

\* C18 witness: one thread holds the lock with an exhausted draw that
\* observed the end position, which the other thread's exhausted draw
\* observed before it.
C18_Witness ==
    /\ pc[WorkerIds[1]] = "next_unlock"
    /\ iterLock = {WorkerIds[1]}
    /\ ret[WorkerIds[1]] = None
    /\ pc[WorkerIds[2]] = "panicked"
    /\ obs[WorkerIds[1]] = NUM_KEYS
    /\ obs[WorkerIds[2]] = NUM_KEYS

\* Thread t is inside a call of ConcurrentHashMap::insert or get.
InCall(t) ==
    pc[t] \in {"insert", "insert_locked", "insert_unlock",
               "get", "get_locked", "get_unlock", "get_ref"}

\* C19: only a thread inside a MutexHashMap call holds the map's lock and
\* only a thread inside a DashMap or scc get holds a reference into the
\* map; a thread whose call has returned holds neither, and a returned get
\* carries its own copy of the value; so when no thread is inside a call
\* the lock is free and no reference is alive.
C19_NoLockPastCall ==
    /\ \A t \in Threads :
         /\ t \in mapLock => HoldsMapLock(t)
         /\ t \in mapGuards => pc[t] = "get_ref"
         /\ ~InCall(t) => t \notin mapLock \cup mapGuards
         /\ pc[t] = "get_ret" =>
              /\ t \notin mapLock \cup mapGuards
              /\ ret[t] = expect[t]
         /\ pc[t] = "insert_ret" => t \notin mapLock \cup mapGuards
    /\ (\A t \in Threads : ~InCall(t)) => (mapLock = {} /\ mapGuards = {})

\* C19 witness: on MutexHashMap both threads are back from a get with
\* their copies of "world", no thread is in a call and the lock is free.
C19_Witness ==
    /\ cell.backend = "MutexHashMap"
    /\ cell.bench = "get"
    /\ \A t \in Threads \ {"main"} : pc[t] = "get_ret" /\ ret[t] = Some(World)
    /\ iters[WorkerIds[1]] = 1
    /\ mapLock = {}

\* C20: in an insert cell the map is empty until the first insert takes
\* effect and holds exactly the one entry "hello" -> "world" from then on,
\* however many inserts follow.
C20_KeySpaceConstant ==
    cell.bench = "insert" =>
        /\ map = EmptyMap \/ map = [k \in {Hello} |-> World]
        /\ map = EmptyMap <=> nIns = 0
        /\ Cardinality(DOMAIN map) <= 1

\* C20 witness: two threads with batches of two have made eight inserts
\* between them and the map holds the one entry.
C20_Witness ==
    /\ cell.bench = "insert"
    /\ cell.threads = 2
    /\ cell.len = 2
    /\ nIns = 8
    /\ \A t \in CellWorkers : iters[t] >= 1
    /\ map = [k \in {Hello} |-> World]

\* The locks thread t holds: the distributor's, the MutexHashMap's, or a
\* reference into a DashMap or scc map.
LocksHeld(t) ==
    (IF t \in iterLock THEN {"keys_iter"} ELSE {})
        \cup (IF t \in mapLock THEN {"map"} ELSE {})
        \cup (IF t \in mapGuards THEN {"entry"} ELSE {})

\* Thread t has not finished its work in the cell.
Unfinished(t) == pc[t] \notin {"off", "done", "panicked"}

\* Thread t is at a lock() that another holder keeps it from passing.
Waiting(t) ==
    \/ pc[t] = "with_inputs" /\ iterLock # {}
    \/ /\ pc[t] \in {"insert", "get"}
       /\ cell.backend = "MutexHashMap"
       /\ mapLock # {}
    \/ /\ pc[t] = "insert"
       /\ cell.backend \in {"DashMap", "scc::HashMap"}
       /\ \E u \in mapGuards : Key(u) = Key(t)

\* C21: in the timed region of a read cell every worker holds at most one
\* lock, the distributor's only outside a map call and a map lock only
\* inside one and outside next(); an unfinished worker can take no step
\* exactly when it waits for a lock; and while any worker is unfinished at
\* least one of them is not waiting, so the cell is never deadlocked.
C21_NoDeadlock ==
    (cell.bench = "get" /\ phase = "timed") =>
        /\ \A t \in CellWorkers :
             /\ Cardinality(LocksHeld(t)) <= 1
             /\ t \in iterLock => (HoldsIterLock(t) /\ ~InCall(t))
             /\ t \in mapLock \cup mapGuards => (InCall(t) /\ ~HoldsIterLock(t))
             /\ Unfinished(t) => (Waiting(t) <=> ~ENABLED ThreadStep(t))
        /\ (\E t \in CellWorkers : Unfinished(t)) =>
             (\E t \in CellWorkers : Unfinished(t) /\ ~Waiting(t))

\* C21 witness: on MutexHashMap one worker holds the distributor's lock in
\* a draw while the other, in its second iteration, holds the map's lock in
\* a get; each holds one lock and neither waits.
C21_Witness ==
    /\ cell.bench = "get"
    /\ cell.backend = "MutexHashMap"
    /\ pc[WorkerIds[1]] = "next_locked"
    /\ LocksHeld(WorkerIds[1]) = {"keys_iter"}
    /\ pc[WorkerIds[2]] = "get_locked"
    /\ LocksHeld(WorkerIds[2]) = {"map"}
    /\ iters[WorkerIds[2]] = 1

=============================================================================
